---- MODULE Spec2Model ----
(***************************************************************************)
(* Near-Earth objects and their close approaches: the entity model of      *)
(* models.py (NearEarthObject, CloseApproach) and the loaders of            *)
(* extract.py (load_neos, load_approaches).                                 *)
(*                                                                         *)
(* Python values are tagged records: None, Str(s), Flt(n), NaN, Bool(b).   *)
(* A float is held in thousandths (Flt(16840) is 16.84); float('nan') is   *)
(* the value NaN.  Objects live in heaps: neos and cas are sequences of    *)
(* objects, an object's identity being its index; lists is the heap of     *)
(* Python list objects an NEO's approaches attribute refers to.  ret is    *)
(* the outcome of the last call: its name, its arguments, the exception it *)
(* ended in ("none" when it returned) and the value it returned.           *)
(***************************************************************************)
EXTENDS Integers, Sequences, FiniteSets, TLC

VARIABLES neos, lists, cas, ret

vars == <<neos, lists, cas, ret>>

\* ------------------------------------------------------------ bounds
\* NearEarthObjects built under Spec
MaxNeos == 2
\* NearEarthObjects and CloseApproaches built under SpecCa
MaxCaNeos == 1
MaxCas == 1
\* NearEarthObjects, CloseApproaches and appends under SpecLink
MaxLinkNeos == 2
MaxLinkCas == 1
MaxAppends == 2
\* Records of an input file under SpecLoad
MaxRows == 2

\* ------------------------------------------------------ Python values
None == [t |-> "None"]
Str(s) == [t |-> "str", s |-> s]
Flt(n) == [t |-> "float", n |-> n]
NaN == [t |-> "nan"]
Bool(b) == [t |-> "bool", b |-> b]

Ok(v) == [exc |-> "none", val |-> v]
Raise(e) == [exc |-> e]

\* float(s) of a string: the numeric texts of the data set parse to their
\* value, 'nan' to the not-a-number, anything else is a ValueError.
ParseFloat(s) ==
  CASE s = "16.84" -> Ok(Flt(16840))
    [] s = "0.15" -> Ok(Flt(150))
    [] s = "5.2" -> Ok(Flt(5200))
    [] s = "nan" -> Ok(NaN)
    [] OTHER -> Raise("ValueError")

\* float(x): a float is returned as it is, a string is parsed, a bool is
\* 1.0 or 0.0, and None is a TypeError.
PyFloat(x) ==
  CASE x.t \in {"float", "nan"} -> Ok(x)
    [] x.t = "str" -> ParseFloat(x.s)
    [] x.t = "bool" -> Ok(Flt(IF x.b THEN 1000 ELSE 0))
    [] OTHER -> Raise("TypeError")

\* try: float(x)  except ValueError: float('nan').  Any other exception
\* leaves the try statement.
FloatOrNan(x) ==
  LET r == PyFloat(x)
  IN  IF r.exc = "ValueError" THEN Ok(NaN) ELSE r

\* str(x) and repr(x) of a string or None
PyStr(x) == IF x.t = "str" THEN x.s ELSE "None"
PyRepr(x) ==
  CASE x.t = "str" -> "'" \o x.s \o "'"
    [] x.t = "bool" -> (IF x.b THEN "True" ELSE "False")
    [] OTHER -> "None"

Pad(n, width) ==
  LET s == ToString(n)
  IN  IF width = 3 /\ n < 10 THEN "00" \o s
      ELSE IF (width = 3 /\ n < 100) \/ (width = 2 /\ n < 10) THEN "0" \o s
      ELSE s

\* format(x, '.3f') and format(x, '.2f') of a float held in thousandths
\* (the values of the model have no digit past the hundredths to round)
Fmt3(x) ==
  IF x.t = "nan" THEN "nan"
  ELSE ToString(x.n \div 1000) \o "." \o Pad(x.n % 1000, 3)
Fmt2(x) ==
  IF x.t = "nan" THEN "nan"
  ELSE ToString(x.n \div 1000) \o "." \o Pad((x.n % 1000) \div 10, 2)

\* ------------------------------------------------- NearEarthObject
\* (variant: the name kept as given)
NormNameKeep(name) == name
\* if name == '': self.name = None  else: self.name = name
NormName(name) == IF name = Str("") THEN None ELSE name

\* (variant: hazardous unless the marker is 'N')
HazardousUnlessN(hazardous) == hazardous # Str("N")
\* self.hazardous = (hazardous == 'Y')
Hazardous(hazardous) == hazardous = Str("Y")

\* (variant: one list shared by every NEO, as a mutable default would be)
SharedList(lsts) ==
  [lists |-> IF lsts = <<>> THEN <<<<>>>> ELSE lsts, ref |-> 1]
\* self.approaches = []: a new list object on the heap of lists
FreshList(lsts) == [lists |-> Append(lsts, <<>>), ref |-> Len(lsts) + 1]

\* NearEarthObject(designation, name, diameter, hazardous)
NeoInit(lsts, designation, name, diameter, hazardous) ==
  LET d == FloatOrNan(diameter)
      l == FreshList(lsts)
  IN  IF d.exc # "none" THEN [exc |-> d.exc, lists |-> lsts]
      ELSE [exc |-> "none", lists |-> l.lists,
            val |-> [designation |-> designation,
                     name |-> NormName(name),
                     diameter |-> d.val,
                     hazardous |-> Hazardous(hazardous),
                     approaches |-> l.ref]]

\* The defaults of the constructor's parameters
NeoDefaults ==
  [designation |-> Str(""), name |-> None, diameter |-> NaN,
   hazardous |-> Bool(FALSE)]

\* (variant: the full name under the designation key)
NeoSerializeFullname(neo) ==
  [designation |-> Str(neo.designation.s \o " (" \o PyStr(neo.name) \o ")"),
   name |-> neo.name,
   diameter_km |-> neo.diameter,
   potentially_hazardous |-> neo.hazardous]
\* serialize(): the dictionary of the four attributes
NeoSerialize(neo) ==
  [designation |-> neo.designation,
   name |-> neo.name,
   diameter_km |-> neo.diameter,
   potentially_hazardous |-> neo.hazardous]

\* fullname: f"{self.designation} ({self.name})", whatever the name is
NeoFullname(neo) ==
  Str(neo.designation.s \o " (" \o PyStr(neo.name) \o ")")

\* repr(neo)
NeoRepr(neo) ==
  "NearEarthObject(designation=" \o PyRepr(neo.designation)
    \o ", name=" \o PyRepr(neo.name)
    \o ", diameter=" \o Fmt3(neo.diameter)
    \o ", hazardous=" \o (IF neo.hazardous THEN "True" ELSE "False") \o ")"

\* ---------------------------------------------------- helpers.py
\* cd_to_datetime: the compact date-hour string (minutes optional) as a
\* timestamp; a string of another format is an error
CdToDatetime(s) ==
  CASE s = Str("2020-01-01 06:00") ->
         Ok([year |-> 2020, month |-> 1, day |-> 1,
             hour |-> 6, minute |-> 0, second |-> 0])
    [] s = Str("2020-01-01 06") ->
         Ok([year |-> 2020, month |-> 1, day |-> 1,
             hour |-> 6, minute |-> 0, second |-> 0])
    [] s = Str("2020-12-31 23:59") ->
         Ok([year |-> 2020, month |-> 12, day |-> 31,
             hour |-> 23, minute |-> 59, second |-> 0])
    [] OTHER -> Raise("ValueError")

\* datetime_to_str: the timestamp as 'YYYY-MM-DD HH:MM', seconds dropped
DatetimeToStr(ts) ==
  ToString(ts.year) \o "-" \o Pad(ts.month, 2) \o "-" \o Pad(ts.day, 2)
    \o " " \o Pad(ts.hour, 2) \o ":" \o Pad(ts.minute, 2)

\* --------------------------------------------------- CloseApproach
\* A reference to the NearEarthObject at index i of the heap
Ref(i) == [t |-> "NearEarthObject", id |-> i]

\* (variant: the approach linked to the first NEO as it is built)
CaInitLinked(designation, time, distance, velocity, neo) ==
  LET tm == CdToDatetime(time)
      d == FloatOrNan(distance)
      v == FloatOrNan(velocity)
  IN  IF tm.exc # "none" THEN Raise(tm.exc)
      ELSE IF d.exc # "none" THEN Raise(d.exc)
      ELSE IF v.exc # "none" THEN Raise(v.exc)
      ELSE Ok([designation |-> designation, time |-> tm.val,
               distance |-> d.val, velocity |-> v.val, neo |-> Ref(1)])
\* CloseApproach(designation, time, distance, velocity, neo)
CaInit(designation, time, distance, velocity, neo) ==
  LET tm == CdToDatetime(time)
      d == FloatOrNan(distance)
      v == FloatOrNan(velocity)
  IN  IF tm.exc # "none" THEN Raise(tm.exc)
      ELSE IF d.exc # "none" THEN Raise(d.exc)
      ELSE IF v.exc # "none" THEN Raise(v.exc)
      ELSE Ok([designation |-> designation, time |-> tm.val,
               distance |-> d.val, velocity |-> v.val, neo |-> neo])

\* The defaults of the constructor's parameters (time has none that the
\* timestamp helper accepts)
CaDefaults ==
  [designation |-> Str(""), distance |-> Flt(0), velocity |-> Flt(0),
   neo |-> None]

\* time_str
CaTimeStr(ca) == DatetimeToStr(ca.time)

\* (variant: an unlinked approach printed with None for the full name)
CaStrTolerant(ca, heap) ==
  Ok(Str("On " \o CaTimeStr(ca) \o ", '"
         \o (IF ca.neo = None THEN "None"
             ELSE NeoFullname(heap[ca.neo.id]).s)
         \o "' approaches Earth at a distance of " \o Fmt2(ca.distance)
         \o " au and a velocity of " \o Fmt2(ca.velocity) \o " km/s."))
\* str(approach): self.neo.fullname is read of whatever self.neo is, and
\* None has no attribute fullname
CaStr(ca, heap) ==
  IF ca.neo = None THEN Raise("AttributeError")
  ELSE Ok(Str("On " \o CaTimeStr(ca) \o ", '"
              \o NeoFullname(heap[ca.neo.id]).s
              \o "' approaches Earth                  at a distance of "
              \o Fmt2(ca.distance)
              \o " au                  and a velocity of "
              \o Fmt2(ca.velocity) \o " km/s."))

\* repr(approach)
CaRepr(ca, heap) ==
  Ok(Str("CloseApproach(time='" \o CaTimeStr(ca)
         \o "', distance=" \o Fmt2(ca.distance)
         \o ", velocity=" \o Fmt2(ca.velocity)
         \o ", neo=" \o (IF ca.neo = None THEN "None"
                         ELSE NeoRepr(heap[ca.neo.id])) \o ")"))

\* (variant: distance and velocity under each other's key)
CaSerializeSwapped(ca) ==
  [datetime_utc |-> Str(DatetimeToStr(ca.time)),
   distance_au |-> ca.velocity,
   velocity_km_s |-> ca.distance]
\* serialize(): the dictionary of the formatted time, distance and velocity
CaSerialize(ca) ==
  [datetime_utc |-> Str(DatetimeToStr(ca.time)),
   distance_au |-> ca.distance,
   velocity_km_s |-> ca.velocity]

\* --------------------------------------------------------- inputs
Designations == {Str("433"), Str("2000433")}
Names == {None, Str(""), Str("Eros")}
Diameters == {NaN, None, Str(""), Str("abc"), Str("16.84")}
HazardMarks == {Bool(FALSE), None, Str(""), Str("Y"), Str("N"), Str("y")}

\* ------------------------------------------------------- actions
Idle == [op |-> "none", exc |-> "none"]

NeoNew(cap, D, N, Dia, H) ==
  /\ Len(neos) < cap
  /\ \E designation \in D, name \in N, diameter \in Dia, hazardous \in H :
       LET r == NeoInit(lists, designation, name, diameter, hazardous)
       IN  /\ neos' = IF r.exc = "none" THEN Append(neos, r.val) ELSE neos
           /\ lists' = r.lists
           /\ ret' = [op |-> "NearEarthObject", exc |-> r.exc,
                      obj |-> IF r.exc = "none" THEN Len(neos) + 1 ELSE 0,
                      args |-> [designation |-> designation, name |-> name,
                                diameter |-> diameter,
                                hazardous |-> hazardous]]
  /\ UNCHANGED cas

NeoSerializeCall ==
  /\ \E i \in 1..Len(neos) :
       ret' = [op |-> "NearEarthObject.serialize", exc |-> "none", obj |-> i,
               val |-> NeoSerialize(neos[i])]
  /\ UNCHANGED <<neos, lists, cas>>

NeoFullnameCall ==
  /\ \E i \in 1..Len(neos) :
       ret' = [op |-> "NearEarthObject.fullname", exc |-> "none", obj |-> i,
               val |-> NeoFullname(neos[i])]
  /\ UNCHANGED <<neos, lists, cas>>

NeoReprCall ==
  /\ \E i \in 1..Len(neos) :
       ret' = [op |-> "NearEarthObject.__repr__", exc |-> "none", obj |-> i,
               val |-> Str(NeoRepr(neos[i]))]
  /\ UNCHANGED <<neos, lists, cas>>

CaNew(cap, D, T, Dist, V) ==
  /\ Len(cas) < cap
  /\ \E designation \in D, time \in T, distance \in Dist, velocity \in V,
        neo \in {None} \cup {Ref(i) : i \in 1..Len(neos)} :
       LET r == CaInit(designation, time, distance, velocity, neo)
       IN  /\ cas' = IF r.exc = "none" THEN Append(cas, r.val) ELSE cas
           /\ ret' = [op |-> "CloseApproach", exc |-> r.exc,
                      obj |-> IF r.exc = "none" THEN Len(cas) + 1 ELSE 0,
                      args |-> [designation |-> designation, time |-> time,
                                distance |-> distance,
                                velocity |-> velocity, neo |-> neo]]
  /\ UNCHANGED <<neos, lists>>

CaTimeStrCall ==
  /\ \E c \in 1..Len(cas) :
       ret' = [op |-> "CloseApproach.time_str", exc |-> "none", obj |-> c,
               val |-> Str(CaTimeStr(cas[c]))]
  /\ UNCHANGED <<neos, lists, cas>>

CaStrCall ==
  /\ \E c \in 1..Len(cas) :
       LET r == CaStr(cas[c], neos)
       IN  ret' = [op |-> "CloseApproach.__str__", exc |-> r.exc, obj |-> c,
                   val |-> IF r.exc = "none" THEN r.val ELSE None]
  /\ UNCHANGED <<neos, lists, cas>>

CaReprCall ==
  /\ \E c \in 1..Len(cas) :
       LET r == CaRepr(cas[c], neos)
       IN  ret' = [op |-> "CloseApproach.__repr__", exc |-> r.exc, obj |-> c,
                   val |-> IF r.exc = "none" THEN r.val ELSE None]
  /\ UNCHANGED <<neos, lists, cas>>

CaSerializeCall ==
  /\ \E c \in 1..Len(cas) :
       ret' = [op |-> "CloseApproach.serialize", exc |-> "none", obj |-> c,
               val |-> CaSerialize(cas[c])]
  /\ UNCHANGED <<neos, lists, cas>>

\* The linking step of the database constructor, as far as the NEO's list
\* goes: neo.approaches.append(approach).  before holds every NEO's
\* approaches as they were when the call was made.
Approaches(i) == lists[neos[i].approaches]

ApproachesAppend ==
  /\ \E i \in 1..Len(neos), c \in 1..Len(cas) :
       /\ Len(Approaches(i)) < MaxAppends
       /\ lists' = [lists EXCEPT ![neos[i].approaches] = Append(@, c)]
       /\ ret' = [op |-> "approaches.append", exc |-> "none", obj |-> i,
                  arg |-> c,
                  before |-> [j \in 1..Len(neos) |-> Approaches(j)]]
  /\ UNCHANGED <<neos, cas>>

\* ------------------------------------------------------ extract.py
\* load_neos: one NearEarthObject per row of the CSV reader, in file order;
\* an exception of a constructor ends the call.
RECURSIVE LoadNeosFrom(_, _, _)
LoadNeosFrom(rows, acc, lsts) ==
  IF rows = <<>> THEN [exc |-> "none", val |-> acc, lists |-> lsts]
  ELSE LET line == Head(rows)
           r == NeoInit(lsts, line.pdes, line.name, line.diameter, line.pha)
       IN  IF r.exc # "none" THEN [exc |-> r.exc]
           ELSE LoadNeosFrom(Tail(rows), Append(acc, r.val), r.lists)

LoadNeos(rows) == LoadNeosFrom(rows, <<>>, <<>>)

\* (variant: the columns taken at fixed positions)
FieldIndexFixed(fields, name) ==
  CASE name = "des" -> 1 [] name = "cd" -> 2 [] name = "dist" -> 3
    [] OTHER -> 4
\* contents['fields'].index(name): the first position holding name, counted
\* from 1 here as rows are indexed from 1
FieldIndex(fields, name) ==
  CHOOSE k \in 1..Len(fields) :
    /\ fields[k] = name
    /\ \A j \in 1..(k - 1) : fields[j] # name

\* load_approaches: one CloseApproach per row of contents['data'], in file
\* order, its arguments taken at the positions of the named fields.
RECURSIVE LoadApproachesFrom(_, _, _)
LoadApproachesFrom(fields, data, acc) ==
  IF data = <<>> THEN Ok(acc)
  ELSE LET line == Head(data)
           r == CaInit(line[FieldIndex(fields, "des")],
                       line[FieldIndex(fields, "cd")],
                       line[FieldIndex(fields, "dist")],
                       line[FieldIndex(fields, "v_rel")],
                       CaDefaults.neo)
       IN  IF r.exc # "none" THEN Raise(r.exc)
           ELSE LoadApproachesFrom(fields, Tail(data), Append(acc, r.val))

LoadApproaches(fields, data) == LoadApproachesFrom(fields, data, <<>>)

\* Input files: the rows of the CSV file as the reader yields them (a cell
\* missing at the end of a short row is None), and the JSON document's
\* fields and data (a null cell is None).
SeqsUpTo(S, n) == UNION {[1..m -> S] : m \in 0..n}

FieldNames == {"des", "cd", "dist", "v_rel"}

\* Every order of the columns
FieldOrders ==
  {f \in [1..Cardinality(FieldNames) -> FieldNames] :
     \A a, b \in DOMAIN f : a # b => f[a] # f[b]}

\* A data row: the cells, given by field name, in the order of fields
RowOf(fields, cells) == [k \in DOMAIN fields |-> cells[fields[k]]]

JsonDocs(orders, cellRows) ==
  {[fields |-> fields,
    data |-> [i \in DOMAIN cells |-> RowOf(fields, cells[i])]] :
     fields \in orders, cells \in SeqsUpTo(cellRows, MaxRows)}

LoadNeosCall(files) ==
  /\ \E rows \in files :
       LET r == LoadNeos(rows)
       IN  /\ neos' = IF r.exc = "none" THEN r.val ELSE neos
           /\ lists' = IF r.exc = "none" THEN r.lists ELSE lists
           /\ ret' = [op |-> "load_neos", exc |-> r.exc, args |-> rows]
  /\ UNCHANGED cas

LoadApproachesCall(files) ==
  /\ \E contents \in files :
       LET r == LoadApproaches(contents.fields, contents.data)
       IN  /\ cas' = IF r.exc = "none" THEN r.val ELSE cas
           /\ ret' = [op |-> "load_approaches", exc |-> r.exc,
                      args |-> contents]
  /\ UNCHANGED <<neos, lists>>

\* -------------------------------------------------- specifications
Init ==
  /\ neos = <<>>
  /\ lists = <<>>
  /\ cas = <<>>
  /\ ret = Idle

\* NearEarthObjects built from every kind of argument, and read
NeoNewAny == NeoNew(MaxNeos, Designations, Names, Diameters, HazardMarks)

Next ==
  \/ NeoNewAny
  \/ NeoSerializeCall
  \/ NeoFullnameCall
  \/ NeoReprCall

Spec == Init /\ [][Next]_vars

\* CloseApproaches built from every kind of argument, linked to an NEO or
\* not, and read
CdStrings ==
  {Str("2020-01-01 06:00"), Str("2020-01-01 06"), Str("2020-12-31 23:59")}
Distances == {CaDefaults.distance, None, Str(""), Str("0.15")}
Velocities == {Str("abc"), Str("5.2")}

NeoNewCa ==
  NeoNew(MaxCaNeos, {Str("433")}, {Str(""), Str("Eros")}, {Str("16.84")},
         {Str("Y")})

CaNewAny == CaNew(MaxCas, {Str("433")}, CdStrings, Distances, Velocities)

NextCa ==
  \/ NeoNewCa
  \/ CaNewAny
  \/ CaTimeStrCall
  \/ CaStrCall
  \/ CaReprCall
  \/ CaSerializeCall

SpecCa == Init /\ [][NextCa]_vars

\* NearEarthObjects built with the defaults or with a designation, and
\* approaches appended to their lists
NeoNewLink ==
  NeoNew(MaxLinkNeos, {NeoDefaults.designation, Str("433")},
         {NeoDefaults.name}, {NeoDefaults.diameter}, {NeoDefaults.hazardous})

CaNewLink ==
  CaNew(MaxLinkCas, {Str("433")}, {Str("2020-01-01 06:00")}, {Str("0.15")},
        {Str("5.2")})

NextLink ==
  \/ NeoNewLink
  \/ CaNewLink
  \/ ApproachesAppend

SpecLink == Init /\ [][NextLink]_vars

\* The loaders called in any order, and the loaded entities read.  neos and
\* cas hold the collections the last calls returned.  The document has a
\* column no argument is taken from.
CsvFilesLoad ==
  SeqsUpTo([pdes : Designations, name : {Str("")},
            diameter : {Str("16.84"), None}, pha : {Str("N")}], MaxRows)

JsonFilesLoad ==
  JsonDocs({<<"des", "orbit_id", "cd", "dist", "v_rel">>,
            <<"v_rel", "dist", "cd", "orbit_id", "des">>},
           [des : Designations, orbit_id : {Str("1")},
            cd : {Str("2020-01-01 06:00")}, dist : {Str("0.15")},
            v_rel : {Str("5.2")}])

LoadNeosAny == LoadNeosCall(CsvFilesLoad)
LoadApproachesAny == LoadApproachesCall(JsonFilesLoad)

NextLoad ==
  \/ LoadNeosAny
  \/ LoadApproachesAny
  \/ NeoSerializeCall
  \/ NeoFullnameCall
  \/ NeoReprCall
  \/ CaTimeStrCall
  \/ CaStrCall
  \/ CaReprCall
  \/ CaSerializeCall

SpecLoad == Init /\ [][NextLoad]_vars

\* One call of a loader on one input file: the file is drawn first, with
\* every kind of cell and every order of the columns, and then loaded.
CsvFiles ==
  SeqsUpTo([pdes : Designations, name : {Str(""), Str("Eros")},
            diameter : {Str("16.84"), Str(""), None},
            pha : {Str("Y"), Str("N")}], MaxRows)

JsonFiles ==
  JsonDocs(FieldOrders,
           [des : Designations, cd : {Str("2020-01-01 06:00")},
            dist : {Str("0.15"), Str(""), None}, v_rel : {Str("5.2")}])

InitFile ==
  /\ neos = <<>>
  /\ lists = <<>>
  /\ cas = <<>>
  /\ \/ \E f \in CsvFiles :
          ret = [op |-> "open", exc |-> "none", kind |-> "csv", args |-> f]
     \/ \E f \in JsonFiles :
          ret = [op |-> "open", exc |-> "none", kind |-> "json", args |-> f]

Opened(kind) == IF ret.op = "open" /\ ret.kind = kind THEN {ret.args} ELSE {}

LoadNeosOpened == LoadNeosCall(Opened("csv"))
LoadApproachesOpened == LoadApproachesCall(Opened("json"))

NextFile ==
  \/ LoadNeosOpened
  \/ LoadApproachesOpened

SpecFile == InitFile /\ [][NextFile]_vars

\* ----------------------------------------------------------- claims
\* The number a numeric argument stands for, not-a-number when it stands
\* for none
ExpectedNumber(x) ==
  CASE x = Str("16.84") -> Flt(16840)
    [] x = Str("0.15") -> Flt(150)
    [] x = Str("5.2") -> Flt(5200)
    [] x.t = "float" -> x
    [] OTHER -> NaN

\* C1: fullname is "<designation> (<name>)" when the name is present and the
\* designation alone when the name is absent.
C1_Fullname ==
  ret.op = "NearEarthObject.fullname" =>
    ret.val = IF neos[ret.obj].name = None THEN neos[ret.obj].designation
              ELSE Str(neos[ret.obj].designation.s \o " ("
                       \o neos[ret.obj].name.s \o ")")

\* C2: constructing a NearEarthObject or a CloseApproach never raises
\* because of a numeric field: whatever diameter, distance or velocity is
\* given, the object is built, the field holding the parsed number or
\* not-a-number.
C2_NumericNeverRaises ==
  /\ ret.op = "NearEarthObject" =>
       /\ ret.exc = "none"
       /\ neos[ret.obj].diameter = ExpectedNumber(ret.args.diameter)
  /\ ret.op = "CloseApproach" =>
       /\ ret.exc = "none"
       /\ cas[ret.obj].distance = ExpectedNumber(ret.args.distance)
       /\ cas[ret.obj].velocity = ExpectedNumber(ret.args.velocity)

\* C3: hazardous is a boolean, true exactly when the argument is 'Y', and no
\* construction fails on the hazardous argument (one that fails was given a
\* diameter float() does not take, whatever the marker).
C3_HazardousIffY ==
  ret.op = "NearEarthObject" =>
    /\ ret.exc = "none" =>
         /\ neos[ret.obj].hazardous \in BOOLEAN
         /\ neos[ret.obj].hazardous = (ret.args.hazardous = Str("Y"))
    /\ ret.exc # "none" => ret.args.diameter = None

C3_Witness ==
  /\ ret.op = "NearEarthObject"
  /\ ret.exc = "none"
  /\ ret.args.hazardous = Str("y")
  /\ neos[ret.obj].hazardous = FALSE

\* C4: an empty name is stored as None, a missing name stays None, any other
\* name is stored unchanged, and no construction fails on the name.
C4_NameNormalized ==
  ret.op = "NearEarthObject" =>
    /\ ret.exc = "none" =>
         neos[ret.obj].name =
           IF ret.args.name \in {Str(""), None} THEN None ELSE ret.args.name
    /\ ret.exc # "none" => ret.args.diameter = None

C4_Witness ==
  /\ ret.op = "NearEarthObject"
  /\ ret.exc = "none"
  /\ ret.args.name = Str("")
  /\ neos[ret.obj].name = None

\* C5: serialize() of an NEO returns a mapping of exactly the keys
\* designation, name, diameter_km and potentially_hazardous, holding the
\* object's designation, name, diameter and hazardous flag.
C5_NeoSerialize ==
  ret.op = "NearEarthObject.serialize" =>
    /\ ret.exc = "none"
    /\ DOMAIN ret.val =
         {"designation", "name", "diameter_km", "potentially_hazardous"}
    /\ ret.val.designation = neos[ret.obj].designation
    /\ ret.val.name = neos[ret.obj].name
    /\ ret.val.diameter_km = neos[ret.obj].diameter
    /\ ret.val.potentially_hazardous = neos[ret.obj].hazardous

C5_Witness ==
  /\ ret.op = "NearEarthObject.serialize"
  /\ neos[ret.obj].name = None
  /\ neos[ret.obj].diameter = NaN
  /\ ret.val.name = None
  /\ ret.val.diameter_km = NaN

\* The renderings of a timestamp to the minute
MinuteStrings == {Str("2020-01-01 06:00"), Str("2020-12-31 23:59")}

\* C6: serialize() of a CloseApproach, linked or not, returns a mapping of
\* exactly the keys datetime_utc, distance_au and velocity_km_s, holding the
\* time to the minute (as time_str gives it), the distance and the velocity.
C6_CaSerialize ==
  ret.op = "CloseApproach.serialize" =>
    /\ ret.exc = "none"
    /\ DOMAIN ret.val = {"datetime_utc", "distance_au", "velocity_km_s"}
    /\ ret.val.datetime_utc = Str(CaTimeStr(cas[ret.obj]))
    /\ ret.val.datetime_utc \in MinuteStrings
    /\ ret.val.distance_au = cas[ret.obj].distance
    /\ ret.val.velocity_km_s = cas[ret.obj].velocity

C6_Witness ==
  /\ ret.op = "CloseApproach.serialize"
  /\ cas[ret.obj].neo = None
  /\ cas[ret.obj].distance = NaN
  /\ cas[ret.obj].velocity # NaN
  /\ ret.val.distance_au = NaN

\* C7: the loaders and the read operations link nothing: every loaded NEO
\* has an empty approaches list, every loaded CloseApproach has neo None and
\* the designation of its row, and a read changes no entity.
Unlinked ==
  /\ \A i \in 1..Len(neos) : Approaches(i) = <<>>
  /\ \A c \in 1..Len(cas) : cas[c].neo = None

DesignationsAsLoaded ==
  (ret.op = "load_approaches" /\ ret.exc = "none") =>
    /\ Len(cas) = Len(ret.args.data)
    /\ \A c \in 1..Len(cas) :
         \E k \in 1..Len(ret.args.fields) :
           /\ ret.args.fields[k] = "des"
           /\ cas[c].designation = ret.args.data[c][k]

ReadsKeep ==
  ret'.op \notin {"load_neos", "load_approaches"} =>
    /\ neos' = neos
    /\ lists' = lists
    /\ cas' = cas

C7_OnlyLinkerLinks ==
  /\ [](Unlinked /\ DesignationsAsLoaded)
  /\ [][ReadsKeep]_vars

C7_Witness ==
  /\ ret.op = "CloseApproach.__repr__"
  /\ ret.exc = "none"
  /\ Len(cas) = 2
  /\ cas[1].designation # cas[2].designation
  /\ Len(neos) = 2
  /\ Unlinked

\* The cell of a data row under the field called name
Cell(contents, i, name) ==
  contents.data[i][CHOOSE k \in 1..Len(contents.fields) :
                     contents.fields[k] = name]

\* The same document with its columns in another order
Reordered(contents, order) ==
  [fields |-> order,
   data |-> [i \in DOMAIN contents.data |->
               [k \in DOMAIN order |-> Cell(contents, i, order[k])]]]

HasNullNumber(cells) == \E i \in DOMAIN cells : cells[i] = None

\* C8: a loader returns one entity per record, in file order, the i-th built
\* from the i-th record; load_approaches takes a row's arguments from the
\* positions of their field names, so the same columns in another order
\* load to the same approaches.  (A call that does not return was given a
\* record with a null numeric cell.)
C8_LoadersInOrder ==
  /\ (ret.op = "load_neos" /\ ret.exc = "none") =>
       /\ Len(neos) = Len(ret.args)
       /\ \A i \in 1..Len(neos) :
            /\ neos[i].designation = ret.args[i].pdes
            /\ neos[i].name = IF ret.args[i].name = Str("") THEN None
                              ELSE ret.args[i].name
            /\ neos[i].diameter = ExpectedNumber(ret.args[i].diameter)
            /\ neos[i].hazardous = (ret.args[i].pha = Str("Y"))
  /\ (ret.op = "load_neos" /\ ret.exc # "none") =>
       HasNullNumber([i \in DOMAIN ret.args |-> ret.args[i].diameter])
  /\ (ret.op = "load_approaches" /\ ret.exc = "none") =>
       /\ Len(cas) = Len(ret.args.data)
       /\ \A i \in 1..Len(cas) :
            /\ cas[i].designation = Cell(ret.args, i, "des")
            /\ cas[i].time = CdToDatetime(Cell(ret.args, i, "cd")).val
            /\ cas[i].distance = ExpectedNumber(Cell(ret.args, i, "dist"))
            /\ cas[i].velocity = ExpectedNumber(Cell(ret.args, i, "v_rel"))
       /\ \A order \in FieldOrders :
            LET other == Reordered(ret.args, order)
            IN  LoadApproaches(other.fields, other.data) = Ok(cas)
  /\ (ret.op = "load_approaches" /\ ret.exc # "none") =>
       HasNullNumber([i \in DOMAIN ret.args.data |->
                        Cell(ret.args, i, "dist")])

C8_Witness ==
  /\ ret.op = "load_approaches"
  /\ ret.exc = "none"
  /\ ret.args.fields[1] # "des"
  /\ Len(cas) = 2
  /\ cas[1].designation = Str("2000433")
  /\ cas[2].designation = Str("433")
  /\ cas[1].distance = NaN

\* C9: every NEO has an approaches list of its own: appending to the list of
\* one leaves the list of every other NEO as it was.
C9_OwnApproaches ==
  /\ \A i, j \in 1..Len(neos) :
       i # j => neos[i].approaches # neos[j].approaches
  /\ ret.op = "approaches.append" =>
       /\ Approaches(ret.obj) = Append(ret.before[ret.obj], ret.arg)
       /\ \A j \in 1..Len(neos) :
            j # ret.obj => Approaches(j) = ret.before[j]

C9_Witness ==
  /\ ret.op = "approaches.append"
  /\ Len(neos) = 2
  /\ neos[1].designation = neos[2].designation
  /\ Approaches(1) = <<1>>
  /\ Approaches(2) = <<>>

\* C10: str() of a CloseApproach returns a string exactly when the approach
\* is linked and ends in an error when neo is None, while repr, time_str and
\* serialize of any approach return.
C10_StrNeedsNeo ==
  /\ ret.op = "CloseApproach.__str__" =>
       /\ (ret.exc = "none") <=> (cas[ret.obj].neo # None)
       /\ cas[ret.obj].neo = None => ret.exc = "AttributeError"
       /\ ret.exc = "none" => ret.val.t = "str"
  /\ ret.op \in {"CloseApproach.__repr__", "CloseApproach.time_str",
                 "CloseApproach.serialize"} => ret.exc = "none"

C10_Witness ==
  /\ ret.op = "CloseApproach.__str__"
  /\ cas[ret.obj].neo = None
  /\ ret.exc = "AttributeError"

====
